---- MODULE Spec2Model ----
(***************************************************************************)
(* ManagedAPIServer (examples/02_remote_agent_server_cn/                   *)
(* 01_convo_with_local_agent_server.py): a context manager that launches   *)
(* the agent server as a child process, forwards its stdout/stderr through *)
(* two daemon threads, polls /health until the server is ready, and        *)
(* terminates (then kills) the child on scope exit.                        *)
(*                                                                         *)
(* Python values are rendered as follows: None and "no response" are the   *)
(* empty sequence, an integer result r is <<r>>; text is a sequence of     *)
(* string pieces, so that formatting is concatenation.                     *)
(***************************************************************************)
EXTENDS Integers, Sequences, FiniteSets, TLC

VARIABLES
    args,           \* constructor arguments [host, port] (line 33 / 135)
    host, port, base_url, process, stdout_thread, stderr_thread,
                    \* the fields of the ManagedAPIServer instance
    pc,             \* position of the main thread
    attempts,       \* iterations of the readiness loop begun so far
    lastResp,       \* result of the latest httpx.get: <<>> = raised, <<s>> = status s
    error,          \* exception leaving the with statement / the direct call
    child,          \* the child OS process: "none", "starting", "listening", "exited"
    listen,         \* <<host, port>> the child was told to bind (Popen argv)
    returncode,     \* <<>> while the child runs, <<rc>> once it has exited
    signals,        \* signals delivered to the child by the supervisor, in order
    written,        \* per stream: the lines the child has written, in order
    pipe,           \* per stream: lines written but not yet read by the forwarder
    fwd,            \* per stream: forwarder thread "none", "running", "closed", "dead"
    faulted,        \* per stream: the forwarder ended in its except branch
    out,            \* per parent stream (sys.stdout, sys.stderr): what was written to it
    parent,         \* the interpreter: "alive" or "exited"
    failures,       \* history: health checks that did not yield 200
    aliveObs,       \* history: poll() calls that returned None
    sleeps,         \* history: time.sleep(1) calls of the readiness loop
    exitSeenAt,     \* history: iteration whose failed health check found the child exited (0: none)
    graceElapsed,   \* history: wait(timeout=5) raised TimeoutExpired
    exitRan,        \* history: __exit__ ran its terminate/wait sequence for the child
    launched        \* history: __enter__ launched a child

fields  == <<host, port, base_url, process, stdout_thread, stderr_thread>>
mainv   == <<pc, attempts, lastResp, error>>
childv  == <<child, listen, returncode, signals>>
streamv == <<written, pipe, fwd, faulted, out>>
histv   == <<failures, aliveObs, sleeps, exitSeenAt, graceElapsed, exitRan, launched>>
vars    == <<args, fields, mainv, childv, streamv, parent, histv>>

----------------------------------------------------------------------------
(* Bounds of the model *)
MaxLines == 2       \* lines the child writes per stream
PipeCap  == 1       \* lines an OS pipe holds before the writer blocks

(* Program constants *)
max_retries == 30   \* line 78

None    == <<>>
Streams == {"stdout", "stderr"}
\* the constructor call of line 135: port=8001, host left at its default (line 33)
Calls   == {[host |-> "127.0.0.1", port |-> 8001]}
Other(s) == IF s = "stdout" THEN "stderr" ELSE "stdout"

----------------------------------------------------------------------------
(* Pure helpers *)

\* line 37: f"http://{host}:{port}"
BaseUrl(h, p) == <<"http://", h, ":", ToString(p)>>

\* line 83: f"{self.base_url}/health"
HealthUrl(url) == url \o <<"/health">>

PopenDefaultPort(h, p) == <<h, "8000">>
\* lines 47-55: the argv tail "--port", str(self.port), "--host", self.host
PopenArgs(h, p) == <<h, ToString(p)>>

\* the URL at which a child bound to <<h, p>> answers its health endpoint
Serves(l, url) == url = <<"http://", l[1], ":", l[2], "/health">>

\* the i-th line the child writes to stream s
Line(s, i) == <<s, ToString(i), "\n">>

\* line 22: f"[{prefix}] {line}"
Prefixed(prefix, line) == <<"[", prefix, "] ">> \o line

\* line 25: the message printed by the except branch of _stream_output
FaultLog(prefix) == <<"forwarding error ", prefix>>

TargetStdout(s) == "stdout"
\* lines 65 and 70: the parent stream a child stream is forwarded to
Target(s) == s

ReadyAnyResponse(resp) == resp # None
\* line 84: response.status_code == 200
Ready(resp) == resp # None /\ resp[1] = 200

PollTruthy(rc) == rc # None /\ rc[1] # 0
\* line 90: self.process.poll() is not None
PollExited(rc) == rc # None

LoopDoneEarly(n) == n >= max_retries - 1
\* line 79: the for loop over range(max_retries) is exhausted
LoopDone(n) == n >= max_retries

ExitUnguarded(p) == TRUE
\* line 103: if self.process
ExitGuard(p) == p # None

WaitSkipped(st) == TRUE
\* line 111: self.process.wait() returns only once the child has exited
Waited(st) == st \notin {"starting", "listening"}

Running == child \in {"starting", "listening"}

----------------------------------------------------------------------------
Init ==
    /\ args \in Calls
    /\ host = args.host
    /\ port = args.port
    /\ process = None
    /\ base_url = BaseUrl(args.host, args.port)
    /\ stdout_thread = None
    /\ stderr_thread = None
    /\ pc = "init"
    /\ attempts = 0
    /\ lastResp = None
    /\ error = "none"
    /\ child = "none"
    /\ listen = None
    /\ returncode = None
    /\ signals = <<>>
    /\ written = [s \in Streams |-> <<>>]
    /\ pipe = [s \in Streams |-> <<>>]
    /\ fwd = [s \in Streams |-> "none"]
    /\ faulted = [s \in Streams |-> FALSE]
    /\ out = [s \in Streams |-> <<>>]
    /\ parent = "alive"
    /\ failures = 0
    /\ aliveObs = 0
    /\ sleeps = 0
    /\ exitSeenAt = 0
    /\ graceElapsed = FALSE
    /\ exitRan = FALSE
    /\ launched = FALSE

----------------------------------------------------------------------------
(* ManagedAPIServer.__enter__ *)

\* lines 43-75: Popen, then create and start the two forwarder threads
Enter ==
    /\ pc = "init"
    /\ process' = <<"Popen">>
    /\ child' = "starting"
    /\ listen' = PopenArgs(host, port)
    /\ stdout_thread' = <<"Thread">>
    /\ stderr_thread' = <<"Thread">>
    /\ fwd' = [s \in Streams |-> "running"]
    /\ launched' = TRUE
    /\ pc' = "check"
    /\ UNCHANGED <<args, host, port, base_url, attempts, lastResp, error,
                   returncode, signals, written, pipe, faulted, out, parent,
                   failures, aliveObs, sleeps, exitSeenAt, graceElapsed, exitRan>>

\* what httpx.get(url, timeout=1.0) can yield: a listening child bound to the
\* URL's address may answer 200, answer another status, or be too slow;
\* anything else is a connection failure
Responses(url) ==
    IF child = "listening" /\ Serves(listen, url)
    THEN {<<200>>, <<503>>, None}
    ELSE {None}

\* lines 80-88: one health check; return self on 200
HealthCheck ==
    /\ pc = "check"
    /\ \E resp \in Responses(HealthUrl(base_url)) :
        /\ lastResp' = resp
        /\ attempts' = attempts + 1
        /\ IF Ready(resp)
           THEN /\ pc' = "body"
                /\ UNCHANGED <<failures, exitSeenAt>>
           ELSE /\ pc' = "poll"
                /\ failures' = IF resp # <<200>> THEN failures + 1 ELSE failures
                /\ exitSeenAt' = IF child = "exited" THEN attempts + 1 ELSE exitSeenAt
    /\ UNCHANGED <<args, fields, error, childv, streamv, parent,
                   aliveObs, sleeps, graceElapsed, exitRan, launched>>

\* lines 90-95: poll(); raise if the child has exited
PollProcess ==
    /\ pc = "poll"
    /\ IF PollExited(returncode)
       THEN /\ pc' = "done"
            /\ error' = "ProcessExitedEarly"
            /\ UNCHANGED aliveObs
       ELSE /\ pc' = "sleep"
            /\ aliveObs' = aliveObs + 1
            /\ UNCHANGED error
    /\ UNCHANGED <<args, fields, attempts, lastResp, childv, streamv, parent,
                   failures, sleeps, exitSeenAt, graceElapsed, exitRan, launched>>

\* lines 97-99: sleep(1); next iteration, or raise when the loop is exhausted
Sleep ==
    /\ pc = "sleep"
    /\ sleeps' = sleeps + 1
    /\ IF LoopDone(attempts)
       THEN /\ pc' = "done"
            /\ error' = "ReadinessTimeout"
       ELSE /\ pc' = "check"
            /\ UNCHANGED error
    /\ UNCHANGED <<args, fields, attempts, lastResp, childv, streamv, parent,
                   failures, aliveObs, exitSeenAt, graceElapsed, exitRan, launched>>

----------------------------------------------------------------------------
(* The with statement of lines 135-237 *)

\* the body runs to its end
BodyReturn ==
    /\ pc = "body"
    /\ pc' = "exit"
    /\ UNCHANGED <<args, fields, attempts, lastResp, error, childv, streamv,
                   parent, histv>>

\* the body raises
BodyRaise ==
    /\ pc = "body"
    /\ pc' = "exit"
    /\ error' = "BodyError"
    /\ UNCHANGED <<args, fields, attempts, lastResp, childv, streamv,
                   parent, histv>>

----------------------------------------------------------------------------
(* ManagedAPIServer.__exit__ *)

\* Popen.send_signal: polls first and sends nothing to a child already exited
Deliver(sig) == IF Running THEN Append(signals, sig) ELSE signals

\* lines 103-105: the guard, then terminate(); also a direct call on a
\* supervisor that was never entered
ExitBegin ==
    /\ pc \in {"init", "exit"}
    /\ IF ~ExitGuard(process)
       THEN /\ pc' = "done"
            /\ UNCHANGED <<error, signals, exitRan>>
       ELSE IF process = None
       THEN /\ pc' = "done"
            /\ error' = "AttributeError"
            /\ UNCHANGED <<signals, exitRan>>
       ELSE /\ pc' = "wait"
            /\ signals' = Deliver("SIGTERM")
            /\ exitRan' = TRUE
            /\ UNCHANGED error
    /\ UNCHANGED <<args, fields, attempts, lastResp, child, listen, returncode,
                   streamv, parent, failures, aliveObs, sleeps, exitSeenAt,
                   graceElapsed, launched>>

\* lines 106-107: wait(timeout=5) returns because the child has exited
WaitReturns ==
    /\ pc = "wait"
    /\ ~Running
    /\ pc' = "settle"
    /\ UNCHANGED <<args, fields, attempts, lastResp, error, childv, streamv,
                   parent, histv>>

\* lines 108-110: TimeoutExpired, then kill()
WaitTimeout ==
    /\ pc = "wait"
    /\ Running
    /\ graceElapsed' = TRUE
    /\ signals' = Deliver("SIGKILL")
    /\ pc' = "reap"
    /\ UNCHANGED <<args, fields, attempts, lastResp, error, child, listen,
                   returncode, streamv, parent, failures, aliveObs, sleeps,
                   exitSeenAt, exitRan, launched>>

\* line 111: wait() returns once the child is gone
WaitReaped ==
    /\ pc = "reap"
    /\ Waited(child)
    /\ pc' = "settle"
    /\ UNCHANGED <<args, fields, attempts, lastResp, error, childv, streamv,
                   parent, histv>>

\* lines 114-115: sleep(0.5) and return None, so a body exception propagates
Settle ==
    /\ pc = "settle"
    /\ pc' = "done"
    /\ UNCHANGED <<args, fields, attempts, lastResp, error, childv, streamv,
                   parent, histv>>

\* the script ends: the interpreter exits and its daemon threads with it
ParentExit ==
    /\ pc = "done"
    /\ parent = "alive"
    /\ parent' = "exited"
    /\ fwd' = [s \in Streams |-> IF fwd[s] = "running" THEN "dead" ELSE fwd[s]]
    /\ UNCHANGED <<args, fields, mainv, childv, written, pipe, faulted, out, histv>>

----------------------------------------------------------------------------
(* The child process *)

\* the server binds its socket
ChildListen ==
    /\ child = "starting"
    /\ child' = "listening"
    /\ UNCHANGED <<args, fields, mainv, listen, returncode, signals, streamv,
                   parent, histv>>

\* the server exits by itself (crash, bind failure, clean shutdown)
ChildExit ==
    /\ Running
    /\ \E rc \in {0, 1} : returncode' = <<rc>>
    /\ child' = "exited"
    /\ UNCHANGED <<args, fields, mainv, listen, signals, streamv, parent, histv>>

\* the server acts on a pending signal; SIGTERM may as well be ignored
ChildSignalled ==
    /\ Running
    /\ signals # <<>>
    /\ returncode' = IF signals[Len(signals)] = "SIGKILL" THEN <<-9>> ELSE <<-15>>
    /\ child' = "exited"
    /\ UNCHANGED <<args, fields, mainv, listen, signals, streamv, parent, histv>>

\* the server writes one line to stdout or stderr; a full pipe blocks it,
\* a pipe whose read end is closed loses the line
ChildWrite(s) ==
    /\ Running
    /\ Len(written[s]) < MaxLines
    /\ LET line == Line(s, Len(written[s]) + 1) IN
        /\ written' = [written EXCEPT ![s] = Append(@, line)]
        /\ IF fwd[s] = "running"
           THEN /\ Len(pipe[s]) < PipeCap
                /\ pipe' = [pipe EXCEPT ![s] = Append(@, line)]
           ELSE UNCHANGED pipe
    /\ UNCHANGED <<args, fields, mainv, childv, fwd, faulted, out, parent, histv>>

----------------------------------------------------------------------------
(* _stream_output, one thread per stream *)

\* lines 20-23: read one line, write it prefixed to the target stream, flush
FwdLine(s) ==
    /\ fwd[s] = "running"
    /\ pipe[s] # <<>>
    /\ pipe' = [pipe EXCEPT ![s] = Tail(@)]
    /\ out' = [out EXCEPT ![Target(s)] = Append(@, Prefixed("SERVER", Head(pipe[s])))]
    /\ UNCHANGED <<args, fields, mainv, childv, written, fwd, faulted, parent, histv>>

\* lines 20, 26-27: readline returns "" at end of stream; close
FwdEOF(s) ==
    /\ fwd[s] = "running"
    /\ pipe[s] = <<>>
    /\ ~Running
    /\ fwd' = [fwd EXCEPT ![s] = "closed"]
    /\ UNCHANGED <<args, fields, mainv, childv, written, pipe, faulted, out,
                   parent, histv>>

FaultEndsAll(s) == Streams
\* line 24: the forwarders a fault on stream s ends (the handler is local to the thread)
FaultEnds(s) == {s}

\* lines 24-27: readline/write/flush raises; the except branch prints to
\* sys.stderr, the finally branch closes the stream and the thread ends
FwdFault(s) ==
    /\ fwd[s] = "running"
    /\ fwd' = [t \in Streams |-> IF t \in FaultEnds(s) THEN "closed" ELSE fwd[t]]
    /\ pipe' = [t \in Streams |-> IF t \in FaultEnds(s) THEN <<>> ELSE pipe[t]]
    /\ faulted' = [faulted EXCEPT ![s] = TRUE]
    /\ out' = [out EXCEPT !["stderr"] = Append(@, FaultLog("SERVER"))]
    /\ UNCHANGED <<args, fields, mainv, childv, written, parent, histv>>

----------------------------------------------------------------------------
Next ==
    \/ Enter
    \/ HealthCheck
    \/ PollProcess
    \/ Sleep
    \/ BodyReturn
    \/ BodyRaise
    \/ ExitBegin
    \/ WaitReturns
    \/ WaitTimeout
    \/ WaitReaped
    \/ Settle
    \/ ParentExit
    \/ ChildListen
    \/ ChildExit
    \/ ChildSignalled
    \/ \E s \in Streams : ChildWrite(s)
    \/ \E s \in Streams : FwdLine(s)
    \/ \E s \in Streams : FwdEOF(s)
    \/ \E s \in Streams : FwdFault(s)

Spec == Init /\ [][Next]_vars

----------------------------------------------------------------------------
(* Properties *)

Polling       == pc \in {"check", "poll", "sleep"}
StartReturned == pc \in {"body", "exit", "wait", "reap", "settle"} \/ (pc = "done" /\ exitRan)
StartRaised   == pc = "done" /\ launched /\ ~exitRan
Fatal         == {"ProcessExitedEarly", "ReadinessTimeout"}

\* the prefixed (forwarded) entries of a parent stream
IsForwarded(e) == Len(e) >= 3 /\ SubSeq(e, 1, 3) = <<"[", "SERVER", "] ">>
Forwarded(s) == SelectSeq(out[s], IsForwarded)
AllForwarded(s) ==
    Forwarded(s) = [i \in 1..Len(written[s]) |-> Prefixed("SERVER", written[s][i])]

\* C1: every outcome of __enter__ is either a return after a health check
\* whose status was 200, or one of the two fatal errors; a handle is never
\* returned after a failed, errored or non-200 health check.
C1_ReturnsOnlyWhenHealthy ==
    launched =>
        \/ Polling
        \/ StartReturned /\ attempts >= 1 /\ lastResp = <<200>>
        \/ StartRaised /\ error \in Fatal

C1_Witness == pc = "body" /\ attempts >= 2 /\ failures >= 1 /\ lastResp = <<200>>

\* C2: whenever __enter__ aborts with ProcessExitedEarly or ReadinessTimeout,
\* no child launched by it is still running.
C2_NoLiveChildAfterFatalError ==
    (StartRaised /\ error \in Fatal) => ~Running

\* C3: after __exit__ returns following a successful start the child is no
\* longer running; SIGKILL is sent only after the grace wait timed out, stop
\* then returns only once the child is gone, and the escalation raises nothing.
C3_StopLeavesNoChild ==
    /\ \A i \in 1..Len(signals) : signals[i] = "SIGKILL" => graceElapsed
    /\ (exitRan /\ pc \in {"settle", "done"}) =>
            /\ ~Running
            /\ error \in {"none", "BodyError"}

C3_Witness ==
    /\ pc = "done" /\ exitRan /\ graceElapsed
    /\ signals = <<"SIGTERM", "SIGKILL">>
    /\ returncode = <<-9>>

\* C4: for every child __enter__ launches, __exit__ has run its
\* terminate/wait sequence by the time the with statement is left, also when
\* __enter__ itself failed after the launch.
C4_ExitRunsOnEveryPath ==
    (pc = "done" /\ launched) => exitRan

\* C5: when the child has already exited at a failed health check, start
\* raises ProcessExitedEarly in that iteration: no sleep and no further
\* health check follow.
C5_FailsFastOnExitedChild ==
    exitSeenAt # 0 =>
        /\ attempts = exitSeenAt
        /\ sleeps = exitSeenAt - 1
        /\ pc \in {"poll", "done"}
        /\ pc = "done" => (error = "ProcessExitedEarly" /\ ~exitRan)

C5_Witness ==
    /\ exitSeenAt = 2 /\ pc = "done" /\ error = "ProcessExitedEarly"
    /\ returncode = <<0>>

C7_FaultIsIsolated ==
    [][\A s \in Streams :
          (faulted'[s] /\ ~faulted[s]) =>
              /\ fwd'[s] = "closed"
              /\ fwd'[Other(s)] = fwd[Other(s)]
              /\ pipe'[Other(s)] = pipe[Other(s)]
              /\ UNCHANGED <<pc, error, attempts, signals, process>>]_vars

C7_Witness ==
    /\ faulted["stdout"] /\ ~faulted["stderr"]
    /\ out["stderr"] = <<FaultLog("SERVER"), Prefixed("SERVER", Line("stderr", 1))>>
    /\ pc = "done" /\ exitRan /\ graceElapsed /\ error = "none"

\* C8 (as claimed): once start has returned, the child stays up and
\* answering at base_url until stop begins.
C8_StaysReachableInScope ==
    pc \in {"body", "exit"} => (child = "listening" /\ Serves(listen, HealthUrl(base_url)))

\* C8 (amended): host, port and base_url are never rebound after
\* construction, and the child is launched on exactly that host and port;
\* the child itself may exit before the scope does.
C8_AddressIsFixed ==
    /\ host = args.host
    /\ port = args.port
    /\ base_url = <<"http://", args.host, ":", ToString(args.port)>>
    /\ launched => listen = <<args.host, ToString(args.port)>>

C8_Witness ==
    /\ pc = "body" /\ child = "exited"
    /\ base_url = <<"http://", "127.0.0.1", ":", "8001">>

\* C9: __exit__ on a supervisor that was never entered does nothing: no
\* signal, no wait or sleep, no exception, and the fields are unchanged.
C9_StopWithoutStartIsNoOp ==
    [][(pc = "init" /\ pc' # "check") =>
          /\ pc' = "done"
          /\ error' = "none"
          /\ ~exitRan'
          /\ UNCHANGED <<fields, childv, streamv, sleeps, graceElapsed>>]_vars

C9_Witness == pc = "done" /\ ~launched /\ process = None /\ error = "none"

\* C10: the readiness loop issues at most max_retries health checks and
\* raises the timeout exactly when all of them failed with the child seen
\* running after each; never after fewer.
C10_TimeoutExactlyAfterBudget ==
    /\ attempts <= max_retries
    /\ error = "ReadinessTimeout" <=> sleeps = max_retries
    /\ error = "ReadinessTimeout" =>
            (attempts = max_retries /\ failures = max_retries /\ aliveObs = max_retries)
    /\ (failures = max_retries /\ aliveObs = max_retries) =>
            (pc = "sleep" \/ error = "ReadinessTimeout")

C10_Witness == pc = "done" /\ error = "ReadinessTimeout" /\ attempts = max_retries

====
